---------------------------- MODULE Spec2Model ----------------------------
(***************************************************************************)
(* A model of the package github.com/nussjustin/problem (RFC 9457 problem  *)
(* details): the Details JSON codec (MarshalJSONTo / UnmarshalJSONFrom),   *)
(* Type.Details, Is, Details.ServeHTTP and the Handler middleware.         *)
(*                                                                         *)
(* Go ints and JSON numbers are kept at full width: a number is a sign, the *)
(* bits of its integer part (most significant first, no leading zero) and  *)
(* the bits of its fractional part (no trailing zero), so that the         *)
(* int -> JSON number -> float64 -> int path of the codec is computed as   *)
(* the program computes it.                                                *)
(***************************************************************************)
EXTENDS Integers, Sequences, FiniteSets, TLC

VARIABLES pc, d, d0, order, enc, doc, derr, got, t, opts, heap, inst, isErr, matched,
          w, w0, recovered, served, outcome, reqs, resp, fromResult

\* the state of the codec and of Type.Details, and the state of the heap
codecVars == <<pc, d, d0, order, enc, doc, derr, got, t, opts>>
heapVars  == <<heap, inst>>
\* the arguments and the result of Is
isVars    == <<isErr, matched>>
\* the response, the panic of the wrapped handler and what was served; the
\* requests in flight; the response From is called on and what it returned
httpVars  == <<w, w0, recovered, served, outcome, reqs, resp, fromResult>>

vars == <<codecVars, heapVars, isVars, httpVars>>

(***************************************************************************)
(* Bounds of the model.                                                    *)
(***************************************************************************)
\* the largest number of entries of an Extensions map that is encoded
MaxExt == 2
\* the largest number of members of a JSON object that is decoded
MaxMembers == 2
\* the largest number of options passed to Type.Details
MaxOpts == 2

(***************************************************************************)
(* Numbers.                                                                *)
(***************************************************************************)
\* float64 carries 53 significant bits; Go's int is 64 bits wide
MantissaBits == 53
IntBits == 64

RECURSIVE NatBits(_)
NatBits(n) == IF n = 0 THEN <<>> ELSE NatBits(n \div 2) \o <<n % 2>>

Zeros(n) == [i \in 1..n |-> 0]

RECURSIVE StripLeading(_)
StripLeading(s) ==
    IF s = <<>> THEN <<>>
    ELSE IF Head(s) = 0 THEN StripLeading(Tail(s)) ELSE s

RECURSIVE StripTrailing(_)
StripTrailing(s) ==
    IF s = <<>> THEN <<>>
    ELSE IF s[Len(s)] = 0 THEN StripTrailing(SubSeq(s, 1, Len(s) - 1)) ELSE s

\* a number from its sign, integer bits and fraction bits, in canonical form
Num(neg, ip, fp) ==
    LET i == StripLeading(ip)
        f == StripTrailing(fp)
    IN [neg |-> neg /\ (i # <<>> \/ f # <<>>), ip |-> i, fp |-> f]

\* the Go int (or the integral JSON number) n, for a small natural n
I(n) == Num(FALSE, NatBits(n), <<>>)

IsIntegral(x) == x.fp = <<>>

\* s + 1 on a bit string; the carry out of the top lengthens it
RECURSIVE Inc(_)
Inc(s) ==
    IF s = <<>> THEN <<1>>
    ELSE IF s[Len(s)] = 0 THEN SubSeq(s, 1, Len(s) - 1) \o <<1>>
    ELSE Inc(SubSeq(s, 1, Len(s) - 1)) \o <<0>>

\* the float64 nearest to x (round to nearest, ties to even), as strconv's
\* ParseFloat and the conversion float64(int) compute it
Float64(x) ==
    LET all  == x.ip \o x.fp
        ones == {i \in 1..Len(all) : all[i] = 1}
        lead == IF ones = {} THEN 0 ELSE CHOOSE i \in ones : \A j \in ones : i <= j
        cut  == lead + MantissaBits - 1
    IN IF ones = {} \/ cut >= Len(all) THEN x
       ELSE LET keep   == SubSeq(all, 1, cut)
                guard  == all[cut + 1]
                sticky == \E i \in (cut + 2)..Len(all) : all[i] = 1
                up     == guard = 1 /\ (sticky \/ all[cut] = 1)
                kept   == IF up THEN Inc(keep) ELSE keep
                carry  == Len(kept) - Len(keep)
                nip    == Len(x.ip) + carry
            IN IF cut <= Len(x.ip)
               THEN Num(x.neg, kept \o Zeros(Len(x.ip) - cut), <<>>)
               ELSE Num(x.neg, SubSeq(kept, 1, nip), SubSeq(kept, nip + 1, Len(kept)))

\* the least and the greatest Go int
MinInt == Num(TRUE, <<1>> \o Zeros(IntBits - 1), <<>>)
MaxInt == Num(FALSE, [i \in 1..(IntBits - 1) |-> 1], <<>>)

\* the Go conversion int(v) of a float64 v: truncation toward zero; when the
\* value does not fit the result is implementation-dependent (o)
IntOfFloat(v, o) ==
    LET tr == Num(v.neg, v.ip, <<>>)
    IN IF Len(tr.ip) < IntBits \/ tr = MinInt THEN tr ELSE o

(***************************************************************************)
(* Go values (the dynamic values an Extensions map holds) and JSON values. *)
(***************************************************************************)
GoNil        == [go |-> "nil"]
GoString(s)  == [go |-> "string", s |-> s]
GoBool(b)    == [go |-> "bool", b |-> b]
GoInt(x)     == [go |-> "int", n |-> x]
GoFloat(x)   == [go |-> "float64", n |-> x]
GoSlice(s)   == [go |-> "[]any", e |-> s]
\* the test suite's value with a MarshalJSON of its own
AccountsSlice(s) == [go |-> "accountsSlice", a |-> s]
\* the test suite's value whose MarshalJSON panics
PanicMarshaler == [go |-> "panicMarshaler"]
\* a value the JSON library cannot encode (a channel): encoding returns an error
GoChan == [go |-> "chan"]

JNull     == [k |-> "null"]
JBool(b)  == [k |-> "bool", b |-> b]
JNum(x)   == [k |-> "number", n |-> x]
JStr(s)   == [k |-> "string", s |-> s]
JArr(s)   == [k |-> "array", e |-> s]
JObj(ms)  == [k |-> "object", ms |-> ms]
\* a text that is no JSON value at all
JInvalid  == [k |-> "invalid"]
Member(n, v) == [name |-> n, value |-> v]

\* the encoder's structural tokens
ObjectStart == [k |-> "{"]
ObjectEnd   == [k |-> "}"]

\* accountsSlice.MarshalJSON: the account numbers as "/account/<n>" strings
AccountsMarshalJSON(a) == JArr([i \in 1..Len(a) |-> JStr("/account/" \o ToString(a[i]))])

\* json.MarshalEncode of one Go value: the JSON value written, or how it fails
ToJSON(v) ==
    CASE v.go = "nil"            -> [err |-> "nil", val |-> JNull]
      [] v.go = "string"         -> [err |-> "nil", val |-> JStr(v.s)]
      [] v.go = "bool"           -> [err |-> "nil", val |-> JBool(v.b)]
      [] v.go = "int"            -> [err |-> "nil", val |-> JNum(v.n)]
      [] v.go = "float64"        -> [err |-> "nil", val |-> JNum(v.n)]
      [] v.go = "[]any"          -> [err |-> "nil", val |-> JArr([i \in 1..Len(v.e) |-> JStr(v.e[i].s)])]
      [] v.go = "accountsSlice"  -> [err |-> "nil", val |-> AccountsMarshalJSON(v.a)]
      [] v.go = "panicMarshaler" -> [err |-> "panic", val |-> JNull]
      [] OTHER                   -> [err |-> "error", val |-> JNull]

\* json.Unmarshal of one JSON value into an `any`: a number becomes a float64
FromJSON(j) ==
    CASE j.k = "null"   -> GoNil
      [] j.k = "bool"   -> GoBool(j.b)
      [] j.k = "number" -> GoFloat(Float64(j.n))
      [] j.k = "string" -> GoString(j.s)
      [] OTHER          -> GoSlice([i \in 1..Len(j.e) |-> GoString(j.e[i].s)])

(***************************************************************************)
(* Go maps: a nil map and an empty map differ.                             *)
(***************************************************************************)
NilMap     == [isNil |-> TRUE, kv |-> <<>>]
MakeMap(f) == [isNil |-> FALSE, kv |-> f]
Keys(m)    == DOMAIN m.kv
MapLen(m)  == Cardinality(DOMAIN m.kv)

(***************************************************************************)
(* Details and Type.                                                       *)
(***************************************************************************)
AboutBlankTypeURI == "about:blank"
ContentType == "application/problem+json"

Reserved == {"type", "status", "title", "detail", "instance"}

Details(typ, status, title, detail, instance, extensions, underlying) ==
    [Type |-> typ, Status |-> status, Title |-> title, Detail |-> detail,
     Instance |-> instance, Extensions |-> extensions, Underlying |-> underlying]

\* the zero value of Details
ZeroDetails == Details("", I(0), "", "", "", NilMap, "nil")

\* cmp.Or on strings: the first non-empty argument
CmpOr(a, b) == IF a # "" THEN a ELSE b

(***************************************************************************)
(* jsontext.Encoder: the tokens written so far and the error, if any.  In  *)
(* an object names and values alternate, a name is a string and no name is *)
(* written twice.                                                          *)
(***************************************************************************)
NewEncoder == [tokens |-> <<>>, err |-> "nil"]

\* the member names an encoder has written: the even positions of the object
NamesOf(tokens) == {tokens[i].s : i \in {j \in 2..Len(tokens) : j % 2 = 0 /\ tokens[j].k = "string"}}

WriteToken(e, tok) ==
    LET n      == Len(e.tokens)
        atName == n % 2 = 1
    IN IF n = 0 THEN [e EXCEPT !.tokens = <<tok>>]
       ELSE IF tok = ObjectEnd
            THEN IF atName THEN [e EXCEPT !.tokens = Append(@, tok)]
                 ELSE [e EXCEPT !.err = "error"]
       ELSE IF atName /\ (tok.k # "string" \/ tok.s \in NamesOf(e.tokens))
            THEN [e EXCEPT !.err = "error"]
       ELSE [e EXCEPT !.tokens = Append(@, tok)]

\* `if err := enc.WriteToken(tok); err != nil { return err }`: once a write has
\* failed the function has returned and nothing more is written
Write(e, tok) == IF e.err # "nil" THEN e ELSE WriteToken(e, tok)

\* `if err := json.MarshalEncode(enc, v, opts); err != nil { return err }`
MarshalEncode(e, v) ==
    IF e.err # "nil" THEN e
    ELSE LET r == ToJSON(v)
         IN IF r.err = "nil" THEN WriteToken(e, r.val) ELSE [e EXCEPT !.err = r.err]

(***************************************************************************)
(* Details.MarshalJSONTo.                                                  *)
(***************************************************************************)
WriteType(e, dd) ==
    LET typ == CmpOr(dd.Type, AboutBlankTypeURI)
    IN IF dd.Type # "" THEN Write(Write(e, JStr("type")), JStr(typ)) ELSE e

WriteStatus(e, dd) ==
    IF dd.Status # I(0) THEN Write(Write(e, JStr("status")), JNum(dd.Status)) ELSE e

\* WriteTitle without its emptiness test
WriteTitleAlways(e, dd) == Write(Write(e, JStr("title")), JStr(dd.Title))

WriteTitle(e, dd) ==
    IF dd.Title # "" THEN Write(Write(e, JStr("title")), JStr(dd.Title)) ELSE e

WriteDetail(e, dd) ==
    IF dd.Detail # "" THEN Write(Write(e, JStr("detail")), JStr(dd.Detail)) ELSE e

\* WriteInstance followed by the Underlying error, as marshalling the struct
\* field by field would write it
WriteInstanceAndUnderlying(e, dd) ==
    LET e1 == IF dd.Instance # "" THEN Write(Write(e, JStr("instance")), JStr(dd.Instance))
              ELSE e
    IN IF dd.Underlying # "nil" THEN Write(Write(e1, JStr("underlying")), JStr(dd.Underlying))
       ELSE e1

WriteInstance(e, dd) ==
    IF dd.Instance # "" THEN Write(Write(e, JStr("instance")), JStr(dd.Instance)) ELSE e

\* IsReserved with "instance" forgotten
IsReservedButInstance(key) ==
    key = "type" \/ key = "status" \/ key = "title" \/ key = "detail"

\* the keys the extension loop skips
IsReserved(key) ==
    key = "type" \/ key = "status" \/ key = "title" \/ key = "detail" \/ key = "instance"

\* `for k, v := range d.Extensions`, visiting the keys in the order ord
RECURSIVE WriteExtensions(_, _, _)
WriteExtensions(e, ext, ord) ==
    IF ord = <<>> THEN e
    ELSE LET key == Head(ord)
             e1  == IF IsReserved(key) THEN e
                    ELSE MarshalEncode(Write(e, JStr(key)), ext.kv[key])
         IN WriteExtensions(e1, ext, Tail(ord))

\* MarshalJSONTo with the title written before the status
MarshalJSONToTitleFirst(dd, ord) ==
    LET e0 == Write(NewEncoder, ObjectStart)
        e1 == WriteType(e0, dd)
        e2 == WriteTitle(e1, dd)
        e3 == WriteStatus(e2, dd)
        e4 == WriteDetail(e3, dd)
        e5 == WriteInstance(e4, dd)
        e6 == WriteExtensions(e5, dd.Extensions, ord)
    IN Write(e6, ObjectEnd)

MarshalJSONTo(dd, ord) ==
    LET e0 == Write(NewEncoder, ObjectStart)
        e1 == WriteType(e0, dd)
        e2 == WriteStatus(e1, dd)
        e3 == WriteTitle(e2, dd)
        e4 == WriteDetail(e3, dd)
        e5 == WriteInstance(e4, dd)
        e6 == WriteExtensions(e5, dd.Extensions, ord)
    IN Write(e6, ObjectEnd)

\* the orders in which a range over the map m may visit its keys
Orders(m) ==
    {s \in [1..MapLen(m) -> Keys(m)] : \A i, j \in 1..MapLen(m) : i # j => s[i] # s[j]}

(***************************************************************************)
(* Details.UnmarshalJSONFrom.                                              *)
(***************************************************************************)
MemberNames(ms) == {ms[i].name : i \in 1..Len(ms)}
ValueOf(ms, n)  == ms[CHOOSE i \in 1..Len(ms) : ms[i].name = n].value

\* UnmarshalDecode that takes an input that is no object for an empty one
UnmarshalDecodeLenient(j) ==
    IF j.k = "object" /\ Cardinality(MemberNames(j.ms)) = Len(j.ms)
    THEN [err |-> "nil",
          m   |-> MakeMap([n \in MemberNames(j.ms) |-> FromJSON(ValueOf(j.ms, n))])]
    ELSE [err |-> "nil", m |-> NilMap]

\* json.UnmarshalDecode(dec, &m, opts) with m a nil map[string]any: an object
\* fills the map, null leaves it nil, a name met twice and every other input
\* are errors
UnmarshalDecode(j) ==
    CASE j.k = "null"   -> [err |-> "nil", m |-> NilMap]
      [] j.k = "object" ->
            IF Cardinality(MemberNames(j.ms)) # Len(j.ms)
            THEN [err |-> "error", m |-> NilMap]
            ELSE [err |-> "nil",
                  m   |-> MakeMap([n \in MemberNames(j.ms) |-> FromJSON(ValueOf(j.ms, n))])]
      [] OTHER          -> [err |-> "error", m |-> NilMap]

\* `v, ok := m[key].(string)`
IsString(m, key) == key \in Keys(m) /\ m.kv[key].go = "string"

AssignType(dd, m) ==
    IF IsString(m, "type") THEN [dd EXCEPT !.Type = m.kv["type"].s] ELSE dd

\* StatusOk without the test that the number is an integer
StatusOkAnyNumber(m, o) ==
    "status" \in Keys(m) /\ m.kv["status"].go = "float64"

\* `v, ok := m["status"].(float64); ok && float64(int(v)) == v`
StatusOk(m, o) ==
    /\ "status" \in Keys(m)
    /\ m.kv["status"].go = "float64"
    /\ Float64(IntOfFloat(m.kv["status"].n, o)) = m.kv["status"].n

AssignStatus(dd, m, o) ==
    IF StatusOk(m, o) THEN [dd EXCEPT !.Status = IntOfFloat(m.kv["status"].n, o)] ELSE dd

AssignTitle(dd, m) ==
    IF IsString(m, "title") THEN [dd EXCEPT !.Title = m.kv["title"].s] ELSE dd

AssignDetail(dd, m) ==
    IF IsString(m, "detail") THEN [dd EXCEPT !.Detail = m.kv["detail"].s] ELSE dd

AssignInstance(dd, m) ==
    IF IsString(m, "instance") THEN [dd EXCEPT !.Instance = m.kv["instance"].s] ELSE dd

\* delete(m, key): a no-op on a nil map and on a missing key
Delete(m, key) == [m EXCEPT !.kv = [n \in Keys(m) \ {key} |-> m.kv[n]]]

\* DeleteReserved with "instance" forgotten
DeleteReservedButInstance(m) ==
    Delete(Delete(Delete(Delete(m, "type"), "status"), "title"), "detail")

DeleteReserved(m) ==
    Delete(Delete(Delete(Delete(Delete(m, "type"), "status"), "title"), "detail"), "instance")

\* AssignExtensions without the test that something is left in m
AssignExtensionsAlways(dd, m) == [dd EXCEPT !.Extensions = m]

AssignExtensions(dd, m) ==
    IF MapLen(m) # 0 THEN [dd EXCEPT !.Extensions = m] ELSE dd

\* the receiver after the call and the error returned; o is what int(v) yields
\* for a v outside the range of int
UnmarshalJSONFrom(dd, j, o) ==
    LET r == UnmarshalDecode(j)
    IN IF r.err # "nil" THEN [err |-> r.err, d |-> dd]
       ELSE LET d1 == AssignType(dd, r.m)
                d2 == AssignStatus(d1, r.m, o)
                d3 == AssignTitle(d2, r.m)
                d4 == AssignDetail(d3, r.m)
                d5 == AssignInstance(d4, r.m)
            IN [err |-> "nil", d |-> AssignExtensions(d5, DeleteReserved(r.m))]

\* the JSON text an encoder has produced, as the decoder reads it back
ParseTokens(tokens) ==
    IF Len(tokens) >= 2 /\ tokens[1] = ObjectStart /\ tokens[Len(tokens)] = ObjectEnd
       /\ Len(tokens) % 2 = 0
    THEN JObj([i \in 1..((Len(tokens) - 2) \div 2) |->
                 Member(tokens[2 * i].s, tokens[2 * i + 1])])
    ELSE JInvalid

(***************************************************************************)
(* Options, New and Type.Details.                                          *)
(***************************************************************************)
WithStatus(status)     == [opt |-> "WithStatus", status |-> status]
WithDetail(detail)     == [opt |-> "WithDetail", detail |-> detail]
WithInstance(instance) == [opt |-> "WithInstance", instance |-> instance]
WithExtension(key, value) == [opt |-> "WithExtension", key |-> key, value |-> value]
WithExtensions(extensions) == [opt |-> "WithExtensions", extensions |-> extensions]
WithUnderlying(err)    == [opt |-> "WithUnderlying", err |-> err]

\* m[key] = value on a non-nil map
MapSet(m, key, value) ==
    MakeMap([n \in Keys(m) \cup {key} |-> IF n = key THEN value ELSE m.kv[n]])

\* maps.Copy(dst, src)
MapsCopy(dst, src) ==
    MakeMap([n \in Keys(dst) \cup Keys(src) |->
                IF n \in Keys(src) THEN src.kv[n] ELSE dst.kv[n]])

\* maps.Clone(m): a nil map stays nil
MapsClone(m) == IF m.isNil THEN NilMap ELSE MakeMap(m.kv)

\* `if d.Extensions == nil { d.Extensions = make(map[string]any) }`
EnsureMap(m) == IF m.isNil THEN MakeMap(<<>>) ELSE m

\* opt(d)
ApplyOption(dd, o) ==
    CASE o.opt = "WithStatus"     -> [dd EXCEPT !.Status = o.status]
      [] o.opt = "WithDetail"     -> [dd EXCEPT !.Detail = o.detail]
      [] o.opt = "WithInstance"   -> [dd EXCEPT !.Instance = o.instance]
      [] o.opt = "WithExtension"  ->
            [dd EXCEPT !.Extensions = MapSet(EnsureMap(@), o.key, o.value)]
      [] o.opt = "WithExtensions" ->
            [dd EXCEPT !.Extensions = MapsCopy(EnsureMap(@), o.extensions)]
      [] OTHER                    -> [dd EXCEPT !.Underlying = o.err]

\* `for _, opt := range opts { opt(d) }`
RECURSIVE ApplyOptions(_, _)
ApplyOptions(dd, os) ==
    IF os = <<>> THEN dd ELSE ApplyOptions(ApplyOption(dd, Head(os)), Tail(os))

\* New with the options applied from the last to the first
NewOptionsReversed(typ, title, status, os) ==
    ApplyOptions(Details(typ, status, title, "", "", NilMap, "nil"),
                 [i \in 1..Len(os) |-> os[Len(os) + 1 - i]])

New(typ, title, status, os) ==
    ApplyOptions(Details(typ, status, title, "", "", NilMap, "nil"), os)

Type(uri, title, status, extensions) ==
    [URI |-> uri, Title |-> title, Status |-> status, Extensions |-> extensions]

\* Type.Details: the type's extensions are cloned in before the options run
SeedExtensions(dd, tt) ==
    IF MapLen(tt.Extensions) > 0
    THEN [dd EXCEPT !.Extensions = MapsClone(tt.Extensions)]
    ELSE dd

\* TypeDetails with the type's extensions cloned in whatever their number
TypeDetailsSeedAlways(tt, os) ==
    ApplyOptions([New(tt.URI, tt.Title, tt.Status, <<>>)
                     EXCEPT !.Extensions = MapsClone(tt.Extensions)], os)

\* TypeDetails with the type's extensions cloned in after the options have run
TypeDetailsSeedLast(tt, os) ==
    SeedExtensions(ApplyOptions(New(tt.URI, tt.Title, tt.Status, <<>>), os), tt)

TypeDetails(tt, os) ==
    ApplyOptions(SeedExtensions(New(tt.URI, tt.Title, tt.Status, <<>>), tt), os)

(***************************************************************************)
(* Errors and errors.As.  An error is nil, a *Details (nil or not), an     *)
(* error of another type, an error with an As method that hands out a      *)
(* *Details, an error that wraps one error (Unwrap() error) or one that    *)
(* wraps several (Unwrap() []error).                                       *)
(***************************************************************************)
NilError         == [err |-> "nil"]
DetailsError(dd) == [err |-> "*Details", d |-> dd]
\* a *Details whose Underlying is the error e, itself a chain that may hold
\* a *Details: Unwrap returns e
DetailsOver(dd, e) == [err |-> "*Details", d |-> dd, under |-> e]
NilDetailsError  == [err |-> "(*Details)(nil)"]
PlainError       == [err |-> "io.EOF"]
AsError(dd)      == [err |-> "asError", as |-> dd]
WrapError(e)     == [err |-> "wrapError", next |-> e]
JoinError(es)    == [err |-> "joinError", errs |-> es]

\* what errors.As(err, &d) leaves: whether it found a *Details, and d
NotFound   == [ok |-> FALSE, isNil |-> TRUE, d |-> ZeroDetails]
FoundNil   == [ok |-> TRUE, isNil |-> TRUE, d |-> ZeroDetails]
Found(dd)  == [ok |-> TRUE, isNil |-> FALSE, d |-> dd]

\* errors.As(err, &d) for d of type *Details: the first error of the chain,
\* depth first, that is a *Details or whose As method sets one
RECURSIVE ErrorsAs(_)
RECURSIVE ErrorsAsAny(_)
\* errors.As that looks at what a *Details wraps before the *Details itself
ErrorsAsInnermost(e) ==
    CASE e.err = "nil"             -> NotFound
      [] e.err = "*Details"        ->
            IF "under" \in DOMAIN e /\ ErrorsAs(e.under).ok
            THEN ErrorsAs(e.under) ELSE Found(e.d)
      [] e.err = "(*Details)(nil)" -> FoundNil
      [] e.err = "asError"         -> Found(e.as)
      [] e.err = "wrapError"       -> ErrorsAs(e.next)
      [] e.err = "joinError"       -> ErrorsAsAny(e.errs)
      [] OTHER                     -> NotFound

ErrorsAs(e) ==
    CASE e.err = "nil"             -> NotFound
      [] e.err = "*Details"        -> Found(e.d)
      [] e.err = "(*Details)(nil)" -> FoundNil
      [] e.err = "asError"         -> Found(e.as)
      [] e.err = "wrapError"       -> ErrorsAs(e.next)
      [] e.err = "joinError"       -> ErrorsAsAny(e.errs)
      [] OTHER                     -> NotFound

ErrorsAsAny(es) ==
    IF es = <<>> THEN NotFound
    ELSE IF ErrorsAs(Head(es)).ok THEN ErrorsAs(Head(es))
    ELSE ErrorsAsAny(Tail(es))

\* Is with the URI compared to d.Type as it is
IsRawType(e, tt) ==
    LET r == ErrorsAs(e)
    IN IF ~r.ok THEN "false"
       ELSE IF r.isNil THEN "panic"
       ELSE IF tt.URI # "" /\ tt.URI # r.d.Type THEN "false"
       ELSE IF tt.Title # "" /\ tt.Title # r.d.Title THEN "false"
       ELSE IF tt.Status # I(0) /\ tt.Status # r.d.Status THEN "false"
       ELSE "true"

\* Is that matches whatever errors.As reports
IsUnchecked(e, tt) ==
    LET r == ErrorsAs(e)
    IN IF r.isNil /\ r.ok THEN "panic"
       ELSE IF tt.URI # "" /\ tt.URI # CmpOr(r.d.Type, AboutBlankTypeURI) THEN "false"
       ELSE IF tt.Title # "" /\ tt.Title # r.d.Title THEN "false"
       ELSE IF tt.Status # I(0) /\ tt.Status # r.d.Status THEN "false"
       ELSE "true"

\* Is(err, t): "panic" is the nil dereference of d.Type when errors.As found
\* a nil *Details
Is(e, tt) ==
    LET r == ErrorsAs(e)
    IN IF ~r.ok THEN "false"
       ELSE IF r.isNil THEN "panic"
       ELSE IF tt.URI # "" /\ tt.URI # CmpOr(r.d.Type, AboutBlankTypeURI) THEN "false"
       ELSE IF tt.Title # "" /\ tt.Title # r.d.Title THEN "false"
       ELSE IF tt.Status # I(0) /\ tt.Status # r.d.Status THEN "false"
       ELSE "true"

(***************************************************************************)
(* http.ResponseWriter, as net/http and httptest.ResponseRecorder behave:  *)
(* the header map, whether the status line has been written, the status    *)
(* and the headers written with it, the body written, and the calls made   *)
(* on the writer in their order.                                           *)
(***************************************************************************)
StatusOK == I(200)
StatusInternalServerError == I(500)

NewRecorder ==
    [header |-> <<>>, wroteHeader |-> FALSE, code |-> StatusOK, sent |-> <<>>,
     body |-> <<>>, calls |-> <<>>]

\* the value of a Num that is a small natural number
RECURSIVE NatOf(_)
NatOf(bits) ==
    IF bits = <<>> THEN 0 ELSE 2 * NatOf(SubSeq(bits, 1, Len(bits) - 1)) + bits[Len(bits)]

\* checkWriteHeaderCode: WriteHeader panics on a code outside 100..999
ValidCode(n) == ~n.neg /\ n.fp = <<>> /\ Len(n.ip) <= 10 /\ NatOf(n.ip) \in 100..999

Called(ww, call) == [ww EXCEPT !.calls = Append(@, call)]

\* w.Header().Del(key)
HeaderDel(ww, key) ==
    Called([ww EXCEPT !.header = [n \in DOMAIN @ \ {key} |-> @[n]]],
           [call |-> "Header.Del", key |-> key])

\* w.Header().Set(key, value)
HeaderSet(ww, key, value) ==
    Called([ww EXCEPT !.header = [n \in DOMAIN @ \cup {key} |->
                                     IF n = key THEN <<value>> ELSE @[n]]],
           [call |-> "Header.Set", key |-> key, value |-> value])

\* the status line and the headers go out once
Commit(ww, code) ==
    IF ww.wroteHeader THEN ww
    ELSE [ww EXCEPT !.wroteHeader = TRUE, !.code = code, !.sent = ww.header]

\* w.WriteHeader(code) with a code that passes checkWriteHeaderCode, or on a
\* response whose status line is out: the call is then ignored
ResponseWriteHeader(ww, code) ==
    Called(Commit(ww, code), [call |-> "WriteHeader", code |-> code])

\* w.Write(b): writes the status line with 200 first when it is not out
ResponseWrite(ww, b) ==
    Called([Commit(ww, StatusOK) EXCEPT !.body = Append(@, b)],
           [call |-> "Write", b |-> b])

\* the status ServeHTTP writes
StatusOr500(dd) ==
    IF dd.Status # I(0) THEN dd.Status ELSE StatusInternalServerError

\* d.ServeHTTP that sets the headers before it encodes d
ServeHTTPHeadersFirst(dd, ww, ord) ==
    LET e  == MarshalJSONTo(dd, ord)
        w1 == HeaderDel(ww, "Content-Length")
        w2 == HeaderSet(w1, "Content-Type", ContentType)
        w3 == HeaderSet(w2, "X-Content-Type-Options", "nosniff")
    IN IF e.err # "nil" THEN [w |-> w3, outcome |-> "panic", enc |-> e]
       ELSE IF ~w3.wroteHeader /\ ~ValidCode(StatusOr500(dd))
       THEN [w |-> Called(w3, [call |-> "WriteHeader", code |-> StatusOr500(dd)]),
             outcome |-> "panic", enc |-> e]
       ELSE [w |-> ResponseWrite(ResponseWriteHeader(w3, StatusOr500(dd)), e.tokens),
             outcome |-> "returned", enc |-> e]

\* d.ServeHTTP that leaves the Content-Length header in place
ServeHTTPKeepLength(dd, ww, ord) ==
    LET e  == MarshalJSONTo(dd, ord)
        w2 == HeaderSet(ww, "Content-Type", ContentType)
        w3 == HeaderSet(w2, "X-Content-Type-Options", "nosniff")
    IN IF e.err # "nil" THEN [w |-> ww, outcome |-> "panic", enc |-> e]
       ELSE IF ~w3.wroteHeader /\ ~ValidCode(StatusOr500(dd))
       THEN [w |-> Called(w3, [call |-> "WriteHeader", code |-> StatusOr500(dd)]),
             outcome |-> "panic", enc |-> e]
       ELSE [w |-> ResponseWrite(ResponseWriteHeader(w3, StatusOr500(dd)), e.tokens),
             outcome |-> "returned", enc |-> e]

\* d.ServeHTTP that writes the body before the status
ServeHTTPBodyFirst(dd, ww, ord) ==
    LET e  == MarshalJSONTo(dd, ord)
        w1 == HeaderDel(ww, "Content-Length")
        w2 == HeaderSet(w1, "Content-Type", ContentType)
        w3 == HeaderSet(w2, "X-Content-Type-Options", "nosniff")
    IN IF e.err # "nil" THEN [w |-> ww, outcome |-> "panic", enc |-> e]
       ELSE [w |-> ResponseWriteHeader(ResponseWrite(w3, e.tokens), StatusOr500(dd)),
             outcome |-> "returned", enc |-> e]

\* d.ServeHTTP(w, r), ord the order in which the encode ranges over
\* d.Extensions: json.Marshal(d) first, a panic when it fails (or when
\* WriteHeader rejects the status), then the headers, the status, the body
ServeHTTP(dd, ww, ord) ==
    LET e  == MarshalJSONTo(dd, ord)
        w1 == HeaderDel(ww, "Content-Length")
        w2 == HeaderSet(w1, "Content-Type", ContentType)
        w3 == HeaderSet(w2, "X-Content-Type-Options", "nosniff")
    IN IF e.err # "nil" THEN [w |-> ww, outcome |-> "panic", enc |-> e]
       ELSE IF ~w3.wroteHeader /\ ~ValidCode(StatusOr500(dd))
       THEN [w |-> Called(w3, [call |-> "WriteHeader", code |-> StatusOr500(dd)]),
             outcome |-> "panic", enc |-> e]
       ELSE [w |-> ResponseWrite(ResponseWriteHeader(w3, StatusOr500(dd)), e.tokens),
             outcome |-> "returned", enc |-> e]

(***************************************************************************)
(* Handler: what recover() returns, and the Details that is served.        *)
(***************************************************************************)
InternalServerError ==
    Details("", StatusInternalServerError, "Internal Server Error", "", "", NilMap, "nil")

\* recover() == nil: the wrapped handler did not panic
NoPanic == [recovered |-> "nil"]
\* the recovered value is an error
RecoveredError(e) == [recovered |-> "error", e |-> e]
\* the recovered value is no error: a string
RecoveredString(str) == [recovered |-> "string", s |-> str]
\* panic(nil): recover() returns a *runtime.PanicNilError, an error
PanicNilError == RecoveredError([err |-> "*runtime.PanicNilError"])

\* `if recovered == nil { return }` left out
RecoveredAlways(rec) == TRUE

\* `if recovered == nil { return }`: whether the deferred function goes on
Recovered(rec) == rec # NoPanic

\* the Details the deferred function serves, the recovered error not unwrapped
ResolveNoChain(rec) ==
    IF rec.recovered = "error" /\ rec.e.err = "*Details" THEN rec.e.d
    ELSE InternalServerError

\* the Details the deferred function serves: errors.As on a recovered error,
\* InternalServerError when details is still nil
Resolve(rec) ==
    LET r == IF rec.recovered = "error" THEN ErrorsAs(rec.e) ELSE NotFound
    IN IF r.ok /\ ~r.isNil THEN r.d ELSE InternalServerError

\* no http.Response at hand, and From not called
NoResponse == [contentType |-> <<>>, statusCode |-> I(0), body |-> JNull, bodyRead |-> FALSE]
NotCalled  == [called |-> FALSE, isNil |-> TRUE, d |-> ZeroDetails, err |-> "nil"]

(***************************************************************************)
(* The inputs the operations are run on.                                   *)
(***************************************************************************)
OutOfCreditURI == "https://example.com/probs/out-of-credit"

\* 2^53 + 1, the least positive integer that is no float64
BigInt == Num(FALSE, <<1>> \o Zeros(MantissaBits - 1) \o <<1>>, <<>>)
\* 2^63, one past the greatest int
TwoTo63 == Num(FALSE, <<1>> \o Zeros(IntBits - 1), <<>>)
\* 403.5
Frac403 == Num(FALSE, NatBits(403), <<1>>)
\* 403 + 2^-60, written 403.000000000000000000867...: its float64 is 403
Near403 == Num(FALSE, NatBits(403), Zeros(59) \o <<1>>)

TypeValues     == {"", AboutBlankTypeURI, OutOfCreditURI}
StatusValues   == {I(0), I(403), BigInt}
TitleValues    == {"", "You do not have enough credit."}
DetailValues   == {"", "Your current balance is 30, but that costs 50."}
InstanceValues == {"", "/account/12345/msgs/abc"}
ErrorValues    == {"nil", "testError"}

ExtKeys == Reserved \cup {"balance", "accounts"}

\* the values an extension may hold under a key
ExtValues(key) ==
    IF key = "status" THEN {GoInt(I(418))}
    ELSE IF key = "title" THEN {GoChan}
    ELSE IF key \in Reserved THEN {GoString("I am a teapot")}
    ELSE {GoInt(I(30)), AccountsSlice(<<12345, 67890>>), PanicMarshaler, GoChan}

AllExtValues == UNION {ExtValues(key) : key \in ExtKeys}

\* the Extensions maps of at most n entries, the nil map among them
ExtMaps(n) ==
    {NilMap} \cup
    {MakeMap(f) : f \in UNION {{g \in [S -> AllExtValues] : \A key \in S : g[key] \in ExtValues(key)} :
                                S \in {S \in SUBSET ExtKeys : Cardinality(S) <= n}}}

MarshalInputs ==
    {Details(ty, st, ti, de, ins, ex, un) :
        ty \in TypeValues, st \in StatusValues, ti \in TitleValues, de \in DetailValues,
        ins \in InstanceValues, ex \in ExtMaps(MaxExt), un \in ErrorValues}

\* the values a member of a decoded object may have under a name
MemberValues(name) ==
    CASE name = "status" ->
            {JNum(I(403)), JNum(Frac403), JNum(Near403), JNum(BigInt), JNum(TwoTo63),
             JStr("403"), JNull}
      [] name = "type" -> {JStr(OutOfCreditURI), JStr(AboutBlankTypeURI), JBool(TRUE)}
      [] name \in Reserved -> {JStr("I am a teapot"), JNum(I(1)), JArr(<<JStr("/418")>>)}
      [] OTHER -> {JNum(I(30)), JArr(<<JStr("/account/12345")>>), JNull}

Members == UNION {{Member(name, v) : v \in MemberValues(name)} : name \in ExtKeys}

\* the sequences over S of length at most n
SeqsUpTo(S, n) == UNION {[1..len -> S] : len \in 0..n}

\* the inputs of a decode: no JSON at all, JSON values of every kind, and objects
Docs ==
    {JInvalid, JNull, JBool(TRUE), JNum(I(403)), JStr("invalid"), JArr(<<>>)}
    \cup {JObj(ms) : ms \in SeqsUpTo(Members, MaxMembers)}

\* a Details that already holds values in every field
FullDetails ==
    Details(OutOfCreditURI, I(403), "You do not have enough credit.",
            "Your current balance is 30, but that costs 50.", "/account/12345/msgs/abc",
            MakeMap([n \in {"balance"} |-> GoInt(I(30))]), "testError")

UnmarshalTargets == {ZeroDetails, FullDetails}

\* what int(v) may yield for a v out of range: amd64 gives the least int,
\* arm64 saturates
OverflowResults == {MinInt, MaxInt}

TypeExtensions ==
    {NilMap, MakeMap(<<>>),
     MakeMap([n \in {"currency"} |-> GoString("EUR")]),
     MakeMap([n \in {"currency", "overdraft"} |->
                 IF n = "currency" THEN GoString("EUR") ELSE GoBool(FALSE)])}

Types ==
    {Type(uri, ti, st, ex) :
        uri \in {"", OutOfCreditURI}, ti \in TitleValues, st \in {I(0), I(403)},
        ex \in TypeExtensions}

Options ==
    {WithStatus(I(418)), WithDetail("Your current balance is 30, but that costs 50."),
     WithInstance("/account/12345/msgs/abc"),
     WithExtension("currency", GoString("USD")), WithExtension("balance", GoInt(I(30))),
     WithExtensions(MakeMap([n \in {"currency", "accounts"} |->
                               IF n = "currency" THEN GoString("GBP")
                               ELSE AccountsSlice(<<12345, 67890>>)])),
     WithExtensions(NilMap), WithUnderlying("testError")}

ZeroType == Type("", "", I(0), NilMap)

(***************************************************************************)
(* The state machine.  A run is one call: an encode (optionally read back  *)
(* by a decode into a fresh Details), a decode into d, or a Type.Details.  *)
(*   pc     where the run is                                               *)
(*   d      the Details the call is made on, or that Type.Details returns  *)
(*   d0     d before the call                                              *)
(*   order  the order in which the encode ranged over d.Extensions         *)
(*   enc    the encoder after MarshalJSONTo                                *)
(*   doc    the JSON input of the decode                                   *)
(*   derr   the error the decode returned                                  *)
(*   got    the fresh Details the encoded text was decoded into            *)
(*   t      the Type of Type.Details, opts its options                     *)
(*   heap   the maps and backing arrays that Extensions values refer to,   *)
(*          when the run is about what instances of a Type share           *)
(*   inst   the instances created from t in such a run                     *)
(*   isErr  the error Is is called on (with the Type t)                    *)
(*   matched  what Is returned                                             *)
(*   w      the http.ResponseWriter, w0 the same when ServeHTTP or the     *)
(*          deferred function of Handler was entered                       *)
(*   recovered  what recover() returns in the deferred function of Handler *)
(*   served the Details that Handler called ServeHTTP on                   *)
(*   outcome  how ServeHTTP ended: "returned" or "panic"                   *)
(*   reqs   the requests that run through one Handler at the same time     *)
(*   resp   the http.Response From is called on, fromResult what it        *)
(*          returned                                                       *)
(***************************************************************************)
HeapIdle ==
    /\ heap = <<>>
    /\ inst = <<>>

IsIdle ==
    /\ isErr = NilError
    /\ matched = "not called"

HTTPIdle ==
    /\ w = NewRecorder
    /\ w0 = NewRecorder
    /\ recovered = NoPanic
    /\ served = <<>>
    /\ outcome = "not called"
    /\ reqs = <<>>
    /\ resp = NoResponse
    /\ fromResult = NotCalled

Idle ==
    /\ HeapIdle
    /\ IsIdle
    /\ HTTPIdle
    /\ order = <<>>
    /\ enc = NewEncoder
    /\ doc = JNull
    /\ derr = "nil"
    /\ got = ZeroDetails
    /\ opts = <<>>

InitMarshal ==
    /\ pc = "marshal"
    /\ d \in MarshalInputs
    /\ d0 = d
    /\ t = ZeroType
    /\ Idle

InitUnmarshal ==
    /\ pc = "unmarshal"
    /\ d \in UnmarshalTargets
    /\ d0 = d
    /\ t = ZeroType
    /\ Idle

InitType ==
    /\ pc = "type"
    /\ d = ZeroDetails
    /\ d0 = d
    /\ t \in Types
    /\ Idle

Init == InitMarshal \/ InitUnmarshal \/ InitType

\* d.MarshalJSONTo(enc, opts)
Marshal ==
    /\ pc = "marshal"
    /\ \E ord \in Orders(d.Extensions) :
          /\ enc' = MarshalJSONTo(d, ord)
          /\ order' = ord
    /\ pc' = "marshaled"
    /\ UNCHANGED <<heapVars, isVars, httpVars, d, d0, doc, derr, got, t, opts>>

\* got.UnmarshalJSONFrom on the text just encoded, got a fresh Details
ReadBack ==
    /\ pc = "marshaled"
    /\ enc.err = "nil"
    /\ \E o \in OverflowResults :
          LET j == ParseTokens(enc.tokens)
              r == UnmarshalJSONFrom(ZeroDetails, j, o)
          IN /\ doc' = j
             /\ derr' = r.err
             /\ got' = r.d
    /\ pc' = "readback"
    /\ UNCHANGED <<heapVars, isVars, httpVars, d, d0, order, enc, t, opts>>

\* d.UnmarshalJSONFrom(dec, opts) on the input j
Unmarshal ==
    /\ pc = "unmarshal"
    /\ \E j \in Docs, o \in OverflowResults :
          LET r == UnmarshalJSONFrom(d, j, o)
          IN /\ doc' = j
             /\ derr' = r.err
             /\ d' = r.d
    /\ pc' = "unmarshaled"
    /\ UNCHANGED <<heapVars, isVars, httpVars, d0, order, enc, got, t, opts>>

\* t.Details(opts...)
Instantiate ==
    /\ pc = "type"
    /\ \E os \in SeqsUpTo(Options, MaxOpts) :
          /\ opts' = os
          /\ d' = TypeDetails(t, os)
    /\ pc' = "instantiated"
    /\ UNCHANGED <<heapVars, isVars, httpVars, d0, order, enc, doc, derr, got, t>>

Next == Marshal \/ ReadBack \/ Unmarshal \/ Instantiate

Spec == Init /\ [][Next]_vars

(***************************************************************************)
(* What the claims speak of: the object an encode has written.             *)
(***************************************************************************)
\* the member names in the order written, and the value written under a name
NameSeq(tokens) == [i \in 1..((Len(tokens) - 1) \div 2) |-> tokens[2 * i]]
EncodedKeys     == NamesOf(enc.tokens)
EncodedValue(name) ==
    enc.tokens[(CHOOSE i \in 1..Len(enc.tokens) : i % 2 = 0 /\ enc.tokens[i] = JStr(name)) + 1]

\* a complete object: opened first, closed last, names and values in pairs
WellFormed(tokens) ==
    /\ Len(tokens) >= 2 /\ Len(tokens) % 2 = 0
    /\ tokens[1] = ObjectStart
    /\ tokens[Len(tokens)] = ObjectEnd
    /\ \A i \in 2..(Len(tokens) - 1) : tokens[i] \notin {ObjectStart, ObjectEnd}
    /\ \A i \in 1..Len(NameSeq(tokens)) : NameSeq(tokens)[i].k = "string"

Serializable(dd) ==
    \A key \in Keys(dd.Extensions) : ToJSON(dd.Extensions.kv[key]).err = "nil"

\* the fixed fields that are set, by the emptiness rule of each
FixedSet(dd) ==
    {key \in Reserved :
        \/ key = "type" /\ dd.Type # ""
        \/ key = "status" /\ dd.Status # I(0)
        \/ key = "title" /\ dd.Title # ""
        \/ key = "detail" /\ dd.Detail # ""
        \/ key = "instance" /\ dd.Instance # ""}

FixedValue(dd, key) ==
    CASE key = "type"   -> JStr(dd.Type)
      [] key = "status" -> JNum(dd.Status)
      [] key = "title"  -> JStr(dd.Title)
      [] key = "detail" -> JStr(dd.Detail)
      [] OTHER          -> JStr(dd.Instance)

C2_EmptyTypeIsAboutBlank ==
    (pc = "marshaled" /\ d.Type = "" /\ enc.err = "nil") =>
        /\ "type" \in EncodedKeys
        /\ EncodedValue("type") = JStr(AboutBlankTypeURI)
        /\ enc = MarshalJSONTo([d EXCEPT !.Type = AboutBlankTypeURI], order)

Rank(name) ==
    CASE name = JStr("type")     -> 1
      [] name = JStr("status")   -> 2
      [] name = JStr("title")    -> 3
      [] name = JStr("detail")   -> 4
      [] name = JStr("instance") -> 5
      [] OTHER                   -> 6

\* C4: in the tokens written the fixed keys come in the order type, status,
\* title, detail, instance, every extension key comes after all of them, and
\* the object is closed after the last of them.
C4_EmissionOrder ==
    pc = "marshaled" =>
        LET names == NameSeq(enc.tokens)
        IN /\ \A i, j \in 1..Len(names) :
                 i < j => /\ Rank(names[i]) <= Rank(names[j])
                          /\ Rank(names[i]) < 6 => Rank(names[i]) < Rank(names[j])
           /\ \A i \in 1..Len(enc.tokens) :
                 enc.tokens[i] = ObjectEnd => i = Len(enc.tokens)
           /\ enc.err = "nil" => WellFormed(enc.tokens)

C4_Witness ==
    /\ pc = "marshaled" /\ enc.err = "nil"
    /\ Keys(d.Extensions) = {"balance", "accounts"}
    /\ {"type", "status", "title", "detail", "instance"} \subseteq EncodedKeys

\* C5: a Details with nil Extensions and nil Underlying, encoded and decoded
\* into a fresh Details, comes back equal in all five fields and with no
\* Extensions.
C5_RoundTrip ==
    (pc = "readback" /\ d.Extensions = NilMap /\ d.Underlying = "nil") =>
        derr = "nil" /\ got = d

(***************************************************************************)
(* What the claims speak of: the object a decode has read.                 *)
(***************************************************************************)
\* the decode read an object (no name of which came twice)
DecodedObject ==
    /\ pc = "unmarshaled"
    /\ doc.k = "object"
    /\ Cardinality(MemberNames(doc.ms)) = Len(doc.ms)

Has(name)     == name \in MemberNames(doc.ms)
Input(name)   == ValueOf(doc.ms, name)

\* a string member is copied, a member of another type leaves the field as it was
StringRule(name, new, old) ==
    Has(name) => IF Input(name).k = "string" THEN new = Input(name).s ELSE new = old

\* a number that is an integer as a float64 and fits an int is copied
StatusCopied ==
    (/\ Has("status") /\ Input("status").k = "number"
     /\ IsIntegral(Float64(Input("status").n))
     /\ Len(Float64(Input("status").n).ip) < IntBits)
        => d.Status = Float64(Input("status").n)

C7_ExtensionsAreTheRest ==
    (DecodedObject /\ d0 = ZeroDetails /\ derr = "nil") =>
        /\ Keys(d.Extensions) \cap Reserved = {}
        /\ Keys(d.Extensions) = MemberNames(doc.ms) \ Reserved
        /\ \A name \in Keys(d.Extensions) : d.Extensions.kv[name] = FromJSON(Input(name))
        /\ (MemberNames(doc.ms) \subseteq Reserved) => d.Extensions = NilMap
        /\ ~(MemberNames(doc.ms) \subseteq Reserved) => ~d.Extensions.isNil

C7_Witness ==
    /\ DecodedObject /\ d0 = ZeroDetails /\ derr = "nil"
    /\ MemberNames(doc.ms) = {"instance", "balance"}
    /\ Input("instance").k # "string"
    /\ Keys(d.Extensions) = {"balance"}

\* C8: decoding an input that is no JSON object (no JSON at all, or an array,
\* a string, a number, a boolean, null) returns an error and leaves the
\* Details as it was.
C8_NonObjectIsAnError ==
    (pc = "unmarshaled" /\ doc.k # "object") => derr # "nil" /\ d = d0

\* C9: Underlying is not on the wire and is not set by a decode: a Details
\* encodes as it does with any other Underlying, and a decode leaves
\* Underlying as it was (nil in a fresh Details).
C9_UnderlyingOffTheWire ==
    /\ pc = "marshaled" =>
          \A u \in ErrorValues : enc = MarshalJSONTo([d EXCEPT !.Underlying = u], order)
    /\ pc = "unmarshaled" => d.Underlying = d0.Underlying
    /\ pc = "readback" => got.Underlying = "nil"

C9_Witness ==
    /\ pc = "marshaled" /\ enc.err = "nil"
    /\ d.Underlying = "testError"
    /\ d.Title # "" /\ Keys(d.Extensions) = {"balance"}

(***************************************************************************)
(* What the claims speak of: the options of a Type.Details.                *)
(***************************************************************************)
\* the options that write the field an option kind sets, or an extension key
FieldWriters(os, kind) == {i \in 1..Len(os) : os[i].opt = kind}
ExtWriters(os, key) ==
    {i \in 1..Len(os) :
        \/ os[i].opt = "WithExtension" /\ os[i].key = key
        \/ os[i].opt = "WithExtensions" /\ key \in Keys(os[i].extensions)}
LastOf(S) == CHOOSE i \in S : \A j \in S : j <= i
WrittenValue(o, key) ==
    IF o.opt = "WithExtension" THEN o.value ELSE o.extensions.kv[key]
WrittenKeys(os) == {key \in {"currency", "overdraft", "balance", "accounts"} : ExtWriters(os, key) # {}}

MaxInst == 2

NilRef == 0
Ref(a) == [go |-> "ref", at |-> a]

\* the map at address m, as a value
MapAt(h, m) == IF m = NilRef THEN NilMap ELSE h[m]

\* what a reader of the map at m sees: each entry with the array it refers to
ExtView(h, m) ==
    IF m = NilRef THEN NilMap
    ELSE MakeMap([n \in Keys(h[m]) |->
                     IF h[m].kv[n].go = "ref" THEN h[h[m].kv[n].at] ELSE h[m].kv[n]])

\* opt(d) on the heap: the option writes into the map d.Extensions refers to,
\* and makes a map first when d.Extensions is nil
HeapApplyOption(hd, o) ==
    LET dv  == [hd.d EXCEPT !.Extensions = MapAt(hd.h, hd.d.Extensions)]
        r   == ApplyOption(dv, o)
        old == hd.d.Extensions
    IN IF r.Extensions.isNil
       THEN [h |-> hd.h, d |-> [r EXCEPT !.Extensions = NilRef]]
       ELSE IF old = NilRef
       THEN [h |-> Append(hd.h, r.Extensions),
             d |-> [r EXCEPT !.Extensions = Len(hd.h) + 1]]
       ELSE [h |-> [hd.h EXCEPT ![old] = r.Extensions],
             d |-> [r EXCEPT !.Extensions = old]]

RECURSIVE HeapApplyOptions(_, _)
HeapApplyOptions(hd, os) ==
    IF os = <<>> THEN hd ELSE HeapApplyOptions(HeapApplyOption(hd, Head(os)), Tail(os))

\* HeapTypeDetails without maps.Clone: the instance refers to the Type's map
HeapTypeDetailsAliased(h, tt, os) ==
    LET seeded == MapLen(MapAt(h, tt.Extensions)) > 0
        d1 == Details(tt.URI, tt.Status, tt.Title, "", "",
                      IF seeded THEN tt.Extensions ELSE NilRef, "nil")
    IN HeapApplyOptions([h |-> h, d |-> d1], os)

\* t.Details(opts...) on the heap: maps.Clone makes a new map that holds the
\* values of the Type's map, a Ref among them as it is
HeapTypeDetails(h, tt, os) ==
    LET seeded == MapLen(MapAt(h, tt.Extensions)) > 0
        h1 == IF seeded THEN Append(h, MapsClone(h[tt.Extensions])) ELSE h
        d1 == Details(tt.URI, tt.Status, tt.Title, "", "", 
                      IF seeded THEN Len(h) + 1 ELSE NilRef, "nil")
    IN HeapApplyOptions([h |-> h1, d |-> d1], os)

\* the Types of such a run: Extensions nil, empty, of plain values, and
\* holding a slice
HeapTypes ==
    {[h |-> <<>>, t |-> Type(OutOfCreditURI, "You do not have enough credit.", I(403), NilRef)],
     [h |-> <<MakeMap(<<>>)>>,
      t |-> Type(OutOfCreditURI, "You do not have enough credit.", I(403), 1)],
     [h |-> <<MakeMap([n \in {"currency"} |-> GoString("EUR")])>>,
      t |-> Type(OutOfCreditURI, "You do not have enough credit.", I(403), 1)],
     [h |-> <<GoSlice(<<GoString("/account/12345")>>),
              MakeMap([n \in {"currency", "accounts"} |->
                          IF n = "currency" THEN GoString("EUR") ELSE Ref(1)])>>,
      t |-> Type(OutOfCreditURI, "You do not have enough credit.", I(403), 2)]}

HeapOptions == {<<>>, <<WithExtension("balance", GoInt(I(30)))>>}

\* the keys and the value that the holder of an instance writes
MutatedKeys  == {"currency", "balance"}
MutatedValue == GoString("USD")

InitHeap ==
    /\ pc = "instances"
    /\ \E ht \in HeapTypes : heap = ht.h /\ t = ht.t
    /\ inst = <<>>
    /\ d = ZeroDetails
    /\ d0 = d
    /\ order = <<>>
    /\ enc = NewEncoder
    /\ doc = JNull
    /\ derr = "nil"
    /\ got = ZeroDetails
    /\ opts = <<>>
    /\ IsIdle
    /\ HTTPIdle

\* inst = append(inst, t.Details(opts...))
HeapInstantiate ==
    /\ pc = "instances"
    /\ Len(inst) < MaxInst
    /\ \E os \in HeapOptions :
          LET r == HeapTypeDetails(heap, t, os)
          IN /\ heap' = r.h
             /\ inst' = Append(inst, r.d)
    /\ UNCHANGED <<codecVars, isVars, httpVars>>

\* inst[i].Extensions[key] = value: a key is added or overwritten
SetKey ==
    /\ pc = "instances"
    /\ \E i \in DOMAIN inst, key \in MutatedKeys :
          /\ inst[i].Extensions # NilRef
          /\ heap' = [heap EXCEPT ![inst[i].Extensions] = MapSet(@, key, MutatedValue)]
    /\ UNCHANGED <<codecVars, isVars, httpVars, inst>>

\* delete(inst[i].Extensions, key)
DeleteKey ==
    /\ pc = "instances"
    /\ \E i \in DOMAIN inst, key \in {"currency", "accounts"} :
          /\ inst[i].Extensions # NilRef
          /\ heap' = [heap EXCEPT ![inst[i].Extensions] =
                         MakeMap([n \in Keys(@) \ {key} |-> @.kv[n]])]
    /\ UNCHANGED <<codecVars, isVars, httpVars, inst>>

\* inst[i].Extensions[key].([]string)[0] = "/account/67890": a nested value
\* is changed in place
MutateNested ==
    /\ pc = "instances"
    /\ \E i \in DOMAIN inst :
          /\ inst[i].Extensions # NilRef
          /\ \E key \in Keys(heap[inst[i].Extensions]) :
                LET v == heap[inst[i].Extensions].kv[key]
                IN /\ v.go = "ref"
                   /\ heap' = [heap EXCEPT ![v.at] = GoSlice(<<GoString("/account/67890")>>)]
    /\ UNCHANGED <<codecVars, isVars, httpVars, inst>>

NextHeap == HeapInstantiate \/ SetKey \/ DeleteKey \/ MutateNested

SpecHeap == InitHeap /\ [][NextHeap]_vars

\* C11: no step of a run that creates instances from one Type and changes
\* their Extensions (a key added, overwritten or deleted, a nested value
\* changed in place) changes what the Type's Extensions hold, and no step
\* changes what the Extensions of two instances hold: an instance shares no
\* extension state with the Type or with another instance.
C11_InstancesShareNothing ==
    [][/\ ExtView(heap', t.Extensions) = ExtView(heap, t.Extensions)
       /\ \A i, j \in DOMAIN inst :
             i # j => \/ ExtView(heap', inst[i].Extensions) = ExtView(heap, inst[i].Extensions)
                      \/ ExtView(heap', inst[j].Extensions) = ExtView(heap, inst[j].Extensions)]_vars


MaxWrap == 1

OutOfMotivationURI == "https://example.com/probs/out-of-motivation"

TeapotDetails == Details("", I(418), "I am a teapot", "", "", NilMap, "nil")

\* the fields Is does not read, left empty and filled in
Rests ==
    {[Detail |-> "", Instance |-> "", Extensions |-> NilMap, Underlying |-> "nil"],
     [Detail |-> "Your current balance is 30, but that costs 50.",
      Instance |-> "/account/12345/msgs/abc",
      Extensions |-> MakeMap([n \in {"InDetails"} |-> GoBool(TRUE)]),
      Underlying |-> "testError"]}

IsDetails ==
    {Details(ty, st, ti, r.Detail, r.Instance, r.Extensions, r.Underlying) :
        ty \in TypeValues, st \in {I(0), I(403)}, ti \in TitleValues, r \in Rests}

LeafErrors ==
    {NilError, PlainError, NilDetailsError, AsError(TeapotDetails)}
    \cup {DetailsError(dd) : dd \in IsDetails}

JoinedErrors ==
    {JoinError(<<a, b>>) :
        a, b \in {NilError, PlainError, DetailsError(TeapotDetails),
                  DetailsError(Details(OutOfCreditURI, I(403), "", "", "", NilMap, "nil"))}}

RECURSIVE Wrapped(_, _)
Wrapped(S, n) == IF n = 0 THEN S ELSE S \cup {WrapError(e) : e \in Wrapped(S, n - 1)}

IsErrors == Wrapped(LeafErrors \cup JoinedErrors, MaxWrap)

IsTypes ==
    {Type(uri, ti, st, ex) :
        uri \in {"", AboutBlankTypeURI, OutOfCreditURI, OutOfMotivationURI},
        ti \in {"", "You do not have enough credit.", "You do not have enough motivation."},
        st \in {I(0), I(403), I(418)},
        ex \in {NilMap, MakeMap([n \in {"InType"} |-> GoBool(TRUE)])}}

InitIs ==
    /\ pc = "is"
    /\ isErr \in IsErrors
    /\ t \in IsTypes
    /\ matched = "not called"
    /\ d = ZeroDetails
    /\ d0 = d
    /\ order = <<>>
    /\ enc = NewEncoder
    /\ doc = JNull
    /\ derr = "nil"
    /\ got = ZeroDetails
    /\ opts = <<>>
    /\ HeapIdle
    /\ HTTPIdle

\* matched = Is(isErr, t)
CallIs ==
    /\ pc = "is"
    /\ matched' = Is(isErr, t)
    /\ pc' = "is returned"
    /\ UNCHANGED <<d, d0, order, enc, doc, derr, got, t, opts, heapVars, httpVars, isErr>>

NextIs == CallIs

SpecIs == InitIs /\ [][NextIs]_vars

\* the errors of the chain of e: e, what it wraps, and so on
RECURSIVE Chain(_)
RECURSIVE ChainOfAll(_)
Chain(e) ==
    {e} \cup (IF e.err = "wrapError" THEN Chain(e.next)
              ELSE IF e.err = "joinError" THEN ChainOfAll(e.errs)
              ELSE {})

ChainOfAll(es) == IF es = <<>> THEN {} ELSE Chain(Head(es)) \cup ChainOfAll(Tail(es))

\* d.Type with the empty Type read as "about:blank"
TypeOf(dd) == IF dd.Type = "" THEN "about:blank" ELSE dd.Type

\* the rule of the match, field by field
Matches(dd, tt) ==
    /\ tt.URI = "" \/ tt.URI = TypeOf(dd)
    /\ tt.Title = "" \/ tt.Title = dd.Title
    /\ tt.Status = I(0) \/ tt.Status = dd.Status

\* C13: for an error from which a Details d is obtained, Is(err, t) is true
\* exactly when every field of URI, Title and Status that t sets equals d's
\* (an empty d.Type read as "about:blank"); a t that sets none of them matches
\* every d, and the result is the same for every Detail, Instance, Underlying
\* and Extensions of d and for every Extensions of t.
C13_IsMatchesSetFields ==
    (pc = "is returned" /\ ErrorsAs(isErr).ok /\ ~ErrorsAs(isErr).isNil) =>
        LET dd == ErrorsAs(isErr).d
        IN /\ matched \in {"true", "false"}
           /\ matched = "true" <=> Matches(dd, t)
           /\ (t.URI = "" /\ t.Title = "" /\ t.Status = I(0)) => matched = "true"
           /\ \A r \in Rests, ex \in {NilMap, MakeMap([n \in {"InType"} |-> GoBool(TRUE)])} :
                 Is(DetailsError([dd EXCEPT !.Detail = r.Detail, !.Instance = r.Instance,
                                            !.Extensions = r.Extensions,
                                            !.Underlying = r.Underlying]),
                    [t EXCEPT !.Extensions = ex]) = matched

C13_Witness ==
    /\ pc = "is returned"
    /\ isErr.err = "wrapError" /\ isErr.next.err = "*Details"
    /\ isErr.next.d.Type = "" /\ isErr.next.d.Detail # "" /\ isErr.next.d.Status = I(403)
    /\ t.URI = AboutBlankTypeURI /\ t.Title = "" /\ t.Status = I(403)
    /\ matched = "true"

\* C14: Is(err, t) is false for every t, the Type that sets no field among
\* them, when err is nil or when no error of its chain is a *Details or
\* hands one out through an As method.
C14_IsFalseWithoutDetails ==
    (/\ pc = "is returned"
     /\ \A x \in Chain(isErr) : x.err \notin {"*Details", "(*Details)(nil)", "asError"}) =>
        matched = "false"

C14_Witness ==
    /\ pc = "is returned"
    /\ isErr = WrapError(JoinError(<<NilError, PlainError>>))
    /\ t = Type("", "", I(0), NilMap)
    /\ matched = "false"


(***************************************************************************)
(* Details.ServeHTTP and Handler: the responses, the Details and the       *)
(* wrapped handlers they are run on.                                       *)
(***************************************************************************)
TextChunk(str) == <<[k |-> "text", s |-> str]>>

HeaderSetOp(key, value) == [op |-> "Header.Set", key |-> key, value |-> value]
WriteHeaderOp(code)     == [op |-> "WriteHeader", code |-> code]
WriteOp(b)              == [op |-> "Write", b |-> b]

\* what a handler does to the response, call by call
RECURSIVE RunOps(_, _)
RunOps(ww, ops) ==
    IF ops = <<>> THEN ww
    ELSE LET o == Head(ops)
             w1 == CASE o.op = "Header.Set"  -> HeaderSet(ww, o.key, o.value)
                     [] o.op = "WriteHeader" -> ResponseWriteHeader(ww, o.code)
                     [] OTHER                -> ResponseWrite(ww, o.b)
         IN RunOps(w1, Tail(ops))

\* the responses ServeHTTP is called on: new, with headers set, and with the
\* status line and a part of the body already written
Responses ==
    {NewRecorder,
     RunOps(NewRecorder, <<HeaderSetOp("Content-Length", "1337"),
                           HeaderSetOp("Content-Type", "application/xml")>>),
     RunOps(NewRecorder, <<HeaderSetOp("Content-Length", "1337"),
                           HeaderSetOp("Content-Type", "application/xml"),
                           HeaderSetOp("X-Content-Type-Options", "sniff"),
                           HeaderSetOp("X-Request-Id", "abc")>>),
     RunOps(NewRecorder, <<HeaderSetOp("Content-Type", "text/plain"),
                           WriteOp(TextChunk("Hello World"))>>)}

ServeExtensions ==
    {NilMap,
     MakeMap([n \in {"balance"} |-> GoInt(I(30))]),
     MakeMap([n \in {"balance", "accounts"} |->
                 IF n = "balance" THEN GoInt(I(30)) ELSE AccountsSlice(<<12345, 67890>>)]),
     MakeMap([n \in {"title"} |-> GoChan]),
     MakeMap([n \in {"invalid"} |-> PanicMarshaler]),
     MakeMap([n \in {"balance", "invalid"} |->
                 IF n = "balance" THEN GoInt(I(30)) ELSE GoChan])}

\* 42 is a status that WriteHeader rejects
ServeDetails ==
    {Details(ty, st, ti, "", "", ex, "nil") :
        ty \in {"", OutOfCreditURI}, st \in {I(0), I(403), I(42)},
        ti \in TitleValues, ex \in ServeExtensions}

\* what the wrapped handler does before it returns or panics
NextOps ==
    {<<>>,
     <<HeaderSetOp("Content-Type", "text/plain"), HeaderSetOp("Content-Length", "11")>>,
     <<HeaderSetOp("Content-Type", "text/plain"), WriteOp(TextChunk("Hello World"))>>,
     <<WriteHeaderOp(I(202)), WriteOp(TextChunk("Hel"))>>}

\* what recover() returns after the wrapped handler
RecoveredValues ==
    {NoPanic, PanicNilError, RecoveredString("not an error"),
     RecoveredError(PlainError),
     RecoveredError(NilDetailsError),
     RecoveredError(DetailsError(TeapotDetails)),
     RecoveredError(AsError(TeapotDetails)),
     RecoveredError(WrapError(DetailsError(TeapotDetails))),
     RecoveredError(WrapError(WrapError(PlainError))),
     RecoveredError(JoinError(<<PlainError, DetailsError(TeapotDetails)>>)),
     RecoveredError(DetailsError(Details(OutOfCreditURI, I(403), "", "", "",
         MakeMap([n \in {"balance", "accounts"} |->
                     IF n = "balance" THEN GoInt(I(30)) ELSE AccountsSlice(<<12345, 67890>>)]),
         "testError"))),
     RecoveredError(DetailsError(Details("", I(42), "", "", "", NilMap, "nil"))),
     RecoveredError(WrapError(DetailsError(Details("", I(403), "", "", "",
         MakeMap([n \in {"invalid"} |-> PanicMarshaler]), "nil"))))}

HTTPCodecIdle ==
    /\ d0 = d
    /\ order = <<>>
    /\ enc = NewEncoder
    /\ doc = JNull
    /\ derr = "nil"
    /\ got = ZeroDetails
    /\ t = ZeroType
    /\ opts = <<>>
    /\ HeapIdle
    /\ IsIdle

InitServe ==
    /\ pc = "serve"
    /\ d \in ServeDetails
    /\ w \in Responses
    /\ w0 = w
    /\ recovered = NoPanic
    /\ served = <<>>
    /\ outcome = "not called"
    /\ reqs = <<>>
    /\ resp = NoResponse
    /\ fromResult = NotCalled
    /\ HTTPCodecIdle

InitHandler ==
    /\ pc = "handler"
    /\ d = ZeroDetails
    /\ w \in {NewRecorder, RunOps(NewRecorder, <<HeaderSetOp("X-Request-Id", "abc")>>)}
    /\ w0 = w
    /\ recovered = NoPanic
    /\ served = <<>>
    /\ outcome = "not called"
    /\ reqs = <<>>
    /\ resp = NoResponse
    /\ fromResult = NotCalled
    /\ HTTPCodecIdle

InitHTTP == InitServe \/ InitHandler

\* d.ServeHTTP(w, r)
Serve ==
    /\ pc = "serve"
    /\ \E ord \in Orders(d.Extensions) :
          LET r == ServeHTTP(d, w, ord)
          IN /\ w' = r.w
             /\ outcome' = r.outcome
             /\ enc' = r.enc
             /\ order' = ord
    /\ pc' = "served"
    /\ UNCHANGED <<d, d0, doc, derr, got, t, opts, heapVars, isVars, w0, recovered, served, reqs, resp, fromResult>>

\* next.ServeHTTP(w, r): the wrapped handler runs, and returns or panics
NextServeHTTP ==
    /\ pc = "handler"
    /\ \E ops \in NextOps, rec \in RecoveredValues :
          /\ w' = RunOps(w, ops)
          /\ recovered' = rec
    /\ pc' = "deferred"
    /\ UNCHANGED <<d, d0, order, enc, doc, derr, got, t, opts, heapVars, isVars, w0, served, outcome, reqs, resp, fromResult>>

\* the deferred function of Handler
Deferred ==
    /\ pc = "deferred"
    /\ w0' = w
    /\ IF Recovered(recovered)
       THEN \E ord \in Orders(Resolve(recovered).Extensions) :
               LET r == ServeHTTP(Resolve(recovered), w, ord)
               IN /\ served' = <<Resolve(recovered)>>
                  /\ w' = r.w
                  /\ outcome' = r.outcome
                  /\ enc' = r.enc
                  /\ order' = ord
       ELSE UNCHANGED <<w, served, outcome, enc, order>>
    /\ pc' = "handled"
    /\ UNCHANGED <<d, d0, doc, derr, got, t, opts, heapVars, isVars, recovered, reqs, resp, fromResult>>

NextHTTP == Serve \/ NextServeHTTP \/ Deferred

SpecHTTP == InitHTTP /\ [][NextHTTP]_vars


(***************************************************************************)
(* What the claims about ServeHTTP and Handler speak of.                   *)
(***************************************************************************)
\* ServeHTTP has been called, and the Details it was called on
ServeCalled  == pc = "served" \/ (pc = "handled" /\ served # <<>>)
ServedDetails == IF pc = "served" THEN d ELSE served[1]

\* the headers ServeHTTP deletes or sets
ProblemHeaders == {"Content-Length", "Content-Type", "X-Content-Type-Options"}

\* the calls made on w since w0
NewCalls == SubSeq(w.calls, Len(w0.calls) + 1, Len(w.calls))

\* C15: after ServeHTTP has returned, whatever headers the response held,
\* its headers hold no Content-Length, exactly application/problem+json as
\* Content-Type and nosniff as X-Content-Type-Options, and every other header
\* as before the call; on a response whose status line was not out, these
\* are the headers sent.
C15_ProblemHeaders ==
    (ServeCalled /\ outcome = "returned") =>
        /\ "Content-Length" \notin DOMAIN w.header
        /\ w.header["Content-Type"] = <<ContentType>>
        /\ w.header["X-Content-Type-Options"] = <<"nosniff">>
        /\ DOMAIN w.header \ ProblemHeaders = DOMAIN w0.header \ ProblemHeaders
        /\ \A n \in DOMAIN w0.header \ ProblemHeaders : w.header[n] = w0.header[n]
        /\ ~w0.wroteHeader => w.sent = w.header

C15_Witness ==
    /\ pc = "served" /\ outcome = "returned"
    /\ DOMAIN w0.header = ProblemHeaders \cup {"X-Request-Id"}
    /\ w0.header["Content-Length"] = <<"1337">>
    /\ w0.header["Content-Type"] = <<"application/xml">>
    /\ w0.header["X-Content-Type-Options"] = <<"sniff">>
    /\ w.header["X-Request-Id"] = <<"abc">>

\* C16: a ServeHTTP that returns has made these calls on the response, in
\* this order and each once: the three on the header, one WriteHeader with
\* d.Status (500 when d.Status is zero), one Write with the whole encoded
\* object; on a response whose status line was not out, that status and that
\* body are what the response holds.
C16_HeaderThenStatusThenBody ==
    (ServeCalled /\ outcome = "returned") =>
        /\ WellFormed(enc.tokens)
        /\ NewCalls =
              <<[call |-> "Header.Del", key |-> "Content-Length"],
                [call |-> "Header.Set", key |-> "Content-Type", value |-> ContentType],
                [call |-> "Header.Set", key |-> "X-Content-Type-Options", value |-> "nosniff"],
                [call |-> "WriteHeader",
                 code |-> IF ServedDetails.Status = I(0) THEN I(500) ELSE ServedDetails.Status],
                [call |-> "Write", b |-> enc.tokens]>>
        /\ ~w0.wroteHeader =>
              /\ w.code = (IF ServedDetails.Status = I(0) THEN I(500) ELSE ServedDetails.Status)
              /\ w.body = <<enc.tokens>>

C16_Witness ==
    /\ pc = "served" /\ outcome = "returned"
    /\ d.Status = I(0) /\ d.Title # "" /\ Keys(d.Extensions) = {"balance", "accounts"}
    /\ ~w0.wroteHeader /\ w.code = I(500)

\* C17: when an extension of d that is encoded (its key is no reserved name)
\* cannot be serialized, by an error or by a panic, ServeHTTP panics and the
\* response is as it was before the call: headers, status, body, and no call
\* was made on it.
C17_FailedEncodeWritesNothing ==
    (/\ ServeCalled
     /\ \E key \in Keys(ServedDetails.Extensions) \ Reserved :
           ToJSON(ServedDetails.Extensions.kv[key]).err # "nil") =>
        /\ outcome = "panic"
        /\ w = w0

C17_Witness ==
    /\ pc = "served" /\ outcome = "panic"
    /\ Keys(d.Extensions) = {"balance", "invalid"}
    /\ "Content-Length" \in DOMAIN w.header

\* C18: when the wrapped handler has returned without a panic, the deferred
\* function of Handler does nothing to the response (status, headers and
\* body are what the wrapped handler left) and ServeHTTP is not called.
C18_NoPanicNoAction ==
    (pc = "handled" /\ recovered = NoPanic) =>
        /\ w = w0
        /\ served = <<>>
        /\ outcome = "not called"
        /\ enc = NewEncoder

C18_Witness ==
    /\ pc = "handled" /\ recovered = NoPanic
    /\ w.body = <<TextChunk("Hello World")>>
    /\ w.sent["Content-Type"] = <<"text/plain">>
    /\ w.code = I(200)

\* the Details that the errors of the chain of e are or hand out
DetailsIn(e) ==
    {x.d : x \in {y \in Chain(e) : y.err = "*Details"}}
    \cup {x.as : x \in {y \in Chain(e) : y.err = "asError"}}

\* C19: when the wrapped handler has panicked, Handler serves the recovered
\* value when it is a *Details, else a Details that the chain of the
\* recovered error holds or hands out through As, else (the value is no
\* error, or its chain has no Details) InternalServerError, whose status is
\* 500 and whose title is "Internal Server Error".
C19_ServedDetails ==
    (pc = "handled" /\ recovered # NoPanic) =>
        /\ Len(served) = 1
        /\ IF recovered.recovered = "error" /\ recovered.e.err = "*Details"
           THEN served[1] = recovered.e.d
           ELSE IF recovered.recovered = "error" /\ DetailsIn(recovered.e) # {}
           THEN served[1] \in DetailsIn(recovered.e)
           ELSE /\ served[1] = InternalServerError
                /\ served[1].Status = I(500)
                /\ served[1].Title = "Internal Server Error"

C19_Witness ==
    /\ pc = "handled"
    /\ recovered = RecoveredError(WrapError(DetailsError(TeapotDetails)))
    /\ served = <<TeapotDetails>>
    /\ w.code = I(418)

\* C20: whenever the wrapped handler has panicked, with whatever value and
\* whatever it did to the response before, the response is a whole problem
\* response: ServeHTTP returned, the status is that of the served Details
\* (or 500), the Content-Type sent is application/problem+json and the body
\* is the encoding of the served Details and nothing else.
C20_PanicGivesProblemResponse ==
    (pc = "handled" /\ recovered # NoPanic) =>
        /\ outcome = "returned"
        /\ w.code = (IF served[1].Status = I(0) THEN I(500) ELSE served[1].Status)
        /\ "Content-Type" \in DOMAIN w.sent
        /\ w.sent["Content-Type"] = <<ContentType>>
        /\ WellFormed(enc.tokens)
        /\ w.body = <<enc.tokens>>


\* C21: a panic of the wrapped handler never leaves the handler that Handler
\* returns: for every recovered value, a Details whose extensions cannot be
\* serialized among them, the deferred function serves a response and the
\* call returns to its caller.
C21_PanicNeverPropagates ==
    (pc = "handled" /\ recovered # NoPanic) => (Len(served) = 1 /\ outcome = "returned")


(***************************************************************************)
(* One request through Handler, with the scheduling Go gives it: the       *)
(* wrapped handler is taken to end (it returns or panics), and the         *)
(* deferred function runs when it has.                                     *)
(***************************************************************************)
NextHandler == NextServeHTTP \/ Deferred

\* the step of the deferred function, by where the request is before and
\* after it: the steps of Deferred are these steps, and fairness stated on
\* them is fairness of Deferred
DeferredEnds == pc = "deferred" /\ pc' = "handled"

SpecHandler ==
    InitHandler /\ [][NextHandler]_vars /\ WF_vars(NextServeHTTP) /\ WF_pc(DeferredEnds)

MaxReq == 2

ConcurrentOps ==
    {<<>>, <<HeaderSetOp("Content-Type", "text/plain"), WriteOp(TextChunk("Hello World"))>>}

ConcurrentRecovered ==
    {NoPanic, RecoveredString("not an error"), RecoveredError(PlainError),
     RecoveredError(DetailsError(TeapotDetails))}

\* the deferred function of every request writes to the response of the first
WriterOfFirst(i) == 1

\* the response that the deferred function of request i writes to: the w of
\* its own call of the closure
WriterOf(i) == i

InitConcurrent ==
    /\ pc = "concurrent"
    /\ reqs = [i \in 1..MaxReq |->
                  [pc |-> "handler", w |-> NewRecorder, ops |-> <<>>, rec |-> NoPanic,
                   served |-> <<>>, outcome |-> "not called"]]
    /\ d = ZeroDetails
    /\ w = NewRecorder
    /\ w0 = NewRecorder
    /\ recovered = NoPanic
    /\ served = <<>>
    /\ outcome = "not called"
    /\ resp = NoResponse
    /\ fromResult = NotCalled
    /\ HTTPCodecIdle

\* next.ServeHTTP(w, r) of request i
ReqNextServeHTTP ==
    /\ pc = "concurrent"
    /\ \E i \in DOMAIN reqs, ops \in ConcurrentOps, rec \in ConcurrentRecovered :
          /\ reqs[i].pc = "handler"
          /\ reqs' = [reqs EXCEPT ![i].pc = "deferred", ![i].w = RunOps(@, ops),
                                  ![i].ops = ops, ![i].rec = rec]
    /\ UNCHANGED <<codecVars, heapVars, isVars, w, w0, recovered, served, outcome,
                   resp, fromResult>>

\* the deferred function of request i
ReqDeferred ==
    /\ pc = "concurrent"
    /\ \E i \in DOMAIN reqs :
          /\ reqs[i].pc = "deferred"
          /\ IF Recovered(reqs[i].rec)
             THEN LET dd == Resolve(reqs[i].rec)
                      r  == ServeHTTP(dd, reqs[WriterOf(i)].w, <<>>)
                  IN reqs' = [[reqs EXCEPT ![WriterOf(i)].w = r.w]
                                 EXCEPT ![i].pc = "handled", ![i].served = <<dd>>,
                                        ![i].outcome = r.outcome]
             ELSE reqs' = [reqs EXCEPT ![i].pc = "handled"]
    /\ UNCHANGED <<codecVars, heapVars, isVars, w, w0, recovered, served, outcome,
                   resp, fromResult>>

NextConcurrent == ReqNextServeHTTP \/ ReqDeferred

SpecConcurrent == InitConcurrent /\ [][NextConcurrent]_vars

\* the response of a request that is handled alone
Alone(q) ==
    LET w1 == RunOps(NewRecorder, q.ops)
    IN IF q.pc = "handler" THEN NewRecorder
       ELSE IF q.pc = "deferred" \/ q.rec = NoPanic THEN w1
       ELSE ServeHTTP(Resolve(q.rec), w1, <<>>).w

\* C23: in every interleaving of the requests, the response of each request
\* is at every moment what it is when the request is handled alone: a panic
\* is served to the response of the request that panicked and to no other, a
\* request that completes keeps what its handler wrote.
C23_RequestsAreIndependent ==
    \A i \in DOMAIN reqs :
        /\ reqs[i].w = Alone(reqs[i])
        /\ reqs[i].pc = "handled" =>
              Len(reqs[i].served) = (IF reqs[i].rec = NoPanic THEN 0 ELSE 1)

C23_Witness ==
    /\ reqs # <<>>
    /\ reqs[1].pc = "handled" /\ reqs[1].rec = NoPanic
    /\ reqs[1].w.body = <<TextChunk("Hello World")>>
    /\ reqs[2].pc = "handled" /\ reqs[2].rec = RecoveredError(DetailsError(TeapotDetails))
    /\ reqs[2].w.code = I(418)


(***************************************************************************)
(* From(resp): the Details of an http.Response.  A header value is the     *)
(* sequence of its parts, ";" a part of its own; the response holds the    *)
(* Content-Type header, the status code, the body, and whether the body    *)
(* has been read.                                                          *)
(***************************************************************************)
Response(contentType, statusCode, body) ==
    [contentType |-> contentType, statusCode |-> statusCode, body |-> body,
     bodyRead |-> FALSE]

\* the header value up to its first ";"
RECURSIVE MediaType(_)
MediaType(h) ==
    IF h = <<>> \/ Head(h) = ";" THEN <<>> ELSE <<Head(h)>> \o MediaType(Tail(h))

\* what From returns once the body is read: the error of the decode r, or
\* the Details decoded, with the status of the response when it has none
FromDecoded(rr, r) ==
    IF r.err # "nil"
    THEN [resp |-> rr, called |-> TRUE, isNil |-> TRUE, d |-> ZeroDetails, err |-> r.err]
    ELSE [resp |-> rr, called |-> TRUE, isNil |-> FALSE,
          d |-> IF r.d.Status = I(0) THEN [r.d EXCEPT !.Status = rr.statusCode] ELSE r.d,
          err |-> "nil"]

\* From(resp): nil, nil when the media type is not that of a problem; else
\* the body is decoded into a new Details
From(rr, o) ==
    IF MediaType(rr.contentType) # <<ContentType>>
    THEN [resp |-> rr, called |-> TRUE, isNil |-> TRUE, d |-> ZeroDetails, err |-> "nil"]
    ELSE FromDecoded([rr EXCEPT !.bodyRead = TRUE],
                     UnmarshalJSONFrom(ZeroDetails, rr.body, o))

ContentTypes ==
    {<<>>, <<"application/json">>, <<"application/problem+xml">>,
     <<"Application/Problem+JSON">>, <<ContentType>>,
     <<ContentType, ";", "a=1", ";", "b=2">>,
     <<ContentType, " ", ";", "charset=utf-8">>,
     <<"text/plain", ";", ContentType>>}

Bodies ==
    {JInvalid, JNull, JStr("ignored"), JArr(<<>>), JObj(<<>>),
     JObj(<<Member("type", JStr(OutOfCreditURI))>>),
     JObj(<<Member("type", JStr(OutOfCreditURI)), Member("status", JNum(I(403)))>>),
     JObj(<<Member("status", JNum(I(403))), Member("status", JNum(I(418)))>>),
     JObj(<<Member("balance", JNum(I(30))), Member("title", JNum(I(1)))>>)}

InitFrom ==
    /\ pc = "from"
    /\ \E ct \in ContentTypes, body \in Bodies : resp = Response(ct, I(418), body)
    /\ fromResult = NotCalled
    /\ d = ZeroDetails
    /\ w = NewRecorder
    /\ w0 = NewRecorder
    /\ recovered = NoPanic
    /\ served = <<>>
    /\ outcome = "not called"
    /\ reqs = <<>>
    /\ HTTPCodecIdle

\* fromResult = From(resp)
CallFrom ==
    /\ pc = "from"
    /\ \E o \in OverflowResults :
          \E r \in {From(resp, o)} :
             /\ resp' = r.resp
             /\ fromResult' = [called |-> TRUE, isNil |-> r.isNil, d |-> r.d, err |-> r.err]
    /\ pc' = "from returned"
    /\ UNCHANGED <<d, d0, order, enc, doc, derr, got, t, opts, heapVars, isVars,
                   w, w0, recovered, served, outcome, reqs>>

SpecFrom == InitFrom /\ [][CallFrom]_vars

\* the header value is application/problem+json, alone or followed at once
\* by ";" and parameters
IsProblemContentType(h) ==
    /\ h # <<>>
    /\ h[1] = "application/problem+json"
    /\ Len(h) = 1 \/ h[2] = ";"

CallNew ==
    /\ pc = "type"
    /\ \E os \in SeqsUpTo(Options, MaxOpts) :
          /\ opts' = os
          /\ d' = New(t.URI, t.Title, t.Status, os)
    /\ pc' = "new"
    /\ UNCHANGED <<heapVars, isVars, httpVars, d0, order, enc, doc, derr, got, t>>

SpecNew == InitType /\ [][CallNew]_vars

\* C25: New(type, title, status, opts...) sets Type and Title from its
\* arguments and Status, Detail, Instance and Underlying from the last option
\* that writes each (the argument, "", "" and nil when none does); without
\* options Extensions is nil too; and the keys of Extensions are the union
\* of the keys the WithExtension and WithExtensions options supply, each
\* holding the value of the last option that writes it.
C25_NewAppliesOptionsInOrder ==
    pc = "new" =>
        /\ d.Type = t.URI
        /\ d.Title = t.Title
        /\ d.Status = IF FieldWriters(opts, "WithStatus") = {} THEN t.Status
                      ELSE opts[LastOf(FieldWriters(opts, "WithStatus"))].status
        /\ d.Detail = IF FieldWriters(opts, "WithDetail") = {} THEN ""
                      ELSE opts[LastOf(FieldWriters(opts, "WithDetail"))].detail
        /\ d.Instance = IF FieldWriters(opts, "WithInstance") = {} THEN ""
                        ELSE opts[LastOf(FieldWriters(opts, "WithInstance"))].instance
        /\ d.Underlying = IF FieldWriters(opts, "WithUnderlying") = {} THEN "nil"
                          ELSE opts[LastOf(FieldWriters(opts, "WithUnderlying"))].err
        /\ opts = <<>> => d.Extensions = NilMap
        /\ Keys(d.Extensions) = WrittenKeys(opts)
        /\ \A key \in Keys(d.Extensions) :
              d.Extensions.kv[key] = WrittenValue(opts[LastOf(ExtWriters(opts, key))], key)

C25_Witness ==
    /\ pc = "new"
    /\ t.URI = OutOfCreditURI /\ t.Status = I(403)
    /\ Len(opts) = 2
    /\ opts[1] = WithExtension("currency", GoString("USD"))
    /\ opts[2] = WithExtensions(MakeMap([n \in {"currency", "accounts"} |->
                               IF n = "currency" THEN GoString("GBP")
                               ELSE AccountsSlice(<<12345, 67890>>)]))
    /\ d.Status = I(403)
    /\ Keys(d.Extensions) = {"currency", "accounts"}
    /\ d.Extensions.kv["currency"] = GoString("GBP")


\* C26: a decode that succeeds does not reset the Details it decodes into: a
\* fixed field whose key the input lacks, or holds with a value of another
\* type (no string, for status no number), keeps the value it had, Extensions
\* keeps the map it had when the input has no key besides the reserved ones,
\* and an input of null changes nothing.
C26_DecodeKeepsWhatInputLacks ==
    (pc = "unmarshaled" /\ derr = "nil") =>
        IF doc.k = "object"
        THEN LET Typed(name, kind) == Has(name) /\ Input(name).k = kind
             IN /\ ~Typed("type", "string") => d.Type = d0.Type
                /\ ~Typed("status", "number") => d.Status = d0.Status
                /\ ~Typed("title", "string") => d.Title = d0.Title
                /\ ~Typed("detail", "string") => d.Detail = d0.Detail
                /\ ~Typed("instance", "string") => d.Instance = d0.Instance
                /\ (MemberNames(doc.ms) \subseteq Reserved) => d.Extensions = d0.Extensions
        ELSE d = d0

C26_Witness ==
    /\ pc = "unmarshaled" /\ derr = "nil"
    /\ d0 = FullDetails
    /\ doc = JObj(<<Member("type", JStr(AboutBlankTypeURI)), Member("title", JNum(I(1)))>>)
    /\ d.Type = AboutBlankTypeURI
    /\ d.Title = "You do not have enough credit."
    /\ d.Status = I(403)
    /\ d.Extensions = MakeMap([n \in {"balance"} |-> GoInt(I(30))])


(***************************************************************************)
(* A Details and a Type that several callers share.  The Details d and the *)
(* Type t hold the addresses of their Extensions maps in heap; the callers *)
(* encode d, serve it (as Handler does with InternalServerError), ask Is   *)
(* about it and create instances from t, in any order.                     *)
(***************************************************************************)
\* what a reader of the Details at hand sees
DetailsView(h, dd) == [dd EXCEPT !.Extensions = ExtView(h, dd.Extensions)]

InitShared ==
    /\ pc = "shared"
    /\ \E ht \in HeapTypes :
          /\ t = ht.t
          /\ \/ /\ heap = ht.h
                /\ d = [InternalServerError EXCEPT !.Extensions = NilRef]
             \/ /\ heap = Append(ht.h, MakeMap([n \in {"currency", "balance"} |->
                                    IF n = "currency" THEN GoString("EUR") ELSE GoInt(I(30))]))
                /\ d = Details(OutOfCreditURI, I(403), "You do not have enough credit.",
                               "", "", Len(ht.h) + 1, "nil")
    /\ d0 = d
    /\ inst = <<>>
    /\ order = <<>>
    /\ enc = NewEncoder
    /\ doc = JNull
    /\ derr = "nil"
    /\ got = ZeroDetails
    /\ opts = <<>>
    /\ IsIdle
    /\ HTTPIdle

\* d.MarshalJSONTo(enc, opts)
SharedMarshal ==
    /\ pc = "shared"
    /\ \E ord \in Orders(ExtView(heap, d.Extensions)) :
          /\ enc' = MarshalJSONTo(DetailsView(heap, d), ord)
          /\ order' = ord
    /\ UNCHANGED <<pc, d, d0, doc, derr, got, t, opts, heapVars, isVars, httpVars>>

\* details.ServeHTTP(w, r) in Handler's deferred function, on a new response
SharedServe ==
    /\ pc = "shared"
    /\ Len(served) < MaxReq
    /\ \E ord \in Orders(ExtView(heap, d.Extensions)) :
          LET r == ServeHTTP(DetailsView(heap, d), NewRecorder, ord)
          IN /\ w' = r.w
             /\ outcome' = r.outcome
    /\ w0' = w
    /\ served' = Append(served, DetailsView(heap, d))
    /\ UNCHANGED <<codecVars, heapVars, isVars, recovered, reqs, resp, fromResult>>

\* problem.Is(d, t)
SharedIs ==
    /\ pc = "shared"
    /\ isErr' = DetailsError(DetailsView(heap, d))
    /\ matched' = Is(DetailsError(DetailsView(heap, d)), t)
    /\ UNCHANGED <<codecVars, heapVars, httpVars>>

\* inst = append(inst, t.Details(opts...))
SharedInstantiate ==
    /\ pc = "shared"
    /\ Len(inst) < MaxInst
    /\ \E os \in HeapOptions \cup {<<WithExtension("currency", GoString("USD"))>>} :
          LET r == HeapTypeDetails(heap, t, os)
          IN /\ heap' = r.h
             /\ inst' = Append(inst, r.d)
    /\ UNCHANGED <<codecVars, isVars, httpVars>>

NextShared == SharedMarshal \/ SharedServe \/ SharedIs \/ SharedInstantiate

SpecShared == InitShared /\ [][NextShared]_vars

\* C27: no encode, ServeHTTP, Is or Type.Details, in whatever order they run
\* on a shared Details and a shared Type, changes a field of either or what
\* their Extensions maps hold, and so two responses served from the shared
\* Details have the same status, the same headers and the same members.
C27_SharedValuesAreReadOnly ==
    /\ [][/\ d' = d
          /\ t' = t
          /\ \A a \in DOMAIN heap : heap'[a] = heap[a]]_vars
    /\ [](Len(served) = 2 =>
            LET MembersOf(b) == {<<b[1][2 * i], b[1][2 * i + 1]>> :
                                    i \in 1..((Len(b[1]) - 2) \div 2)}
            IN /\ served[1] = served[2]
               /\ w.code = w0.code
               /\ w.sent = w0.sent
               /\ Len(w.body) = 1 /\ Len(w0.body) = 1
               /\ MembersOf(w.body) = MembersOf(w0.body))

C27_Witness ==
    /\ pc = "shared"
    /\ Len(served) = 2
    /\ served[2].Title = "Internal Server Error"
    /\ w.code = StatusInternalServerError
    /\ Len(inst) = 2
    /\ Keys(ExtView(heap, t.Extensions)) = {"currency", "accounts"}
    /\ Keys(ExtView(heap, inst[2].Extensions)) = {"currency", "accounts", "balance"}
    /\ matched # "not called"
    /\ enc.tokens # <<>>


(***************************************************************************)
(* A Details that wraps a Details.  The error at hand is a Details d1      *)
(* whose Underlying is (or wraps) another Details d2, bare or wrapped      *)
(* itself; Is is asked about it, and a handler under Handler panics with   *)
(* it.                                                                     *)
(***************************************************************************)
OutOfCreditDetails ==
    Details(OutOfCreditURI, I(403), "You do not have enough credit.", "", "", NilMap,
            "*Details")

NestedErrors ==
    LET Outer  == {OutOfCreditDetails, [TeapotDetails EXCEPT !.Underlying = "*Details"]}
        Inner  == {TeapotDetails, Details(OutOfCreditURI, I(403), "", "", "", NilMap, "nil")}
        Unders == {DetailsError(d2) : d2 \in Inner}
                  \cup {WrapError(DetailsError(d2)) : d2 \in Inner}
        Nested == {DetailsOver(d1, u) : d1 \in Outer, u \in Unders}
    IN Nested \cup {WrapError(e) : e \in Nested}

NestedTypes ==
    {Type(uri, "", st, NilMap) :
        uri \in {"", AboutBlankTypeURI, OutOfCreditURI}, st \in {I(0), I(403), I(418)}}

InitNested ==
    /\ pc = "nested"
    /\ isErr \in NestedErrors
    /\ t \in NestedTypes
    /\ matched = "not called"
    /\ d = ZeroDetails
    /\ d0 = d
    /\ order = <<>>
    /\ enc = NewEncoder
    /\ doc = JNull
    /\ derr = "nil"
    /\ got = ZeroDetails
    /\ opts = <<>>
    /\ HeapIdle
    /\ HTTPIdle

\* problem.Is(err, t)
NestedIs ==
    /\ pc = "nested"
    /\ matched = "not called"
    /\ matched' = Is(isErr, t)
    /\ UNCHANGED <<codecVars, heapVars, httpVars, isErr>>

\* Handler(next).ServeHTTP(w, r) with a next that panics with err: the
\* deferred function recovers it, finds its Details and serves it
NestedHandler ==
    /\ pc = "nested"
    /\ recovered = NoPanic
    /\ recovered' = RecoveredError(isErr)
    /\ Recovered(RecoveredError(isErr))
    /\ LET details == Resolve(RecoveredError(isErr))
       IN /\ served' = <<details>>
          /\ \E ord \in Orders(details.Extensions) :
                LET r == ServeHTTP(details, w, ord)
                IN /\ w' = r.w
                   /\ outcome' = r.outcome
    /\ w0' = w
    /\ UNCHANGED <<codecVars, heapVars, isVars, reqs, resp, fromResult>>

NextNested == NestedIs \/ NestedHandler

SpecNested == InitNested /\ [][NextNested]_vars

\* C28: for an error whose outermost Details d1 has a Details d2 in its
\* Underlying, Is is decided on d1 alone (false when d1 does not match t,
\* d2 matching or not; true when d1 matches, d2 matching or not) and Handler
\* serves d1 with d1's status, never d2.
C28_OutermostDetailsIsUsed ==
    LET outer == IF isErr.err = "wrapError" THEN isErr.next ELSE isErr
        under == IF outer.under.err = "wrapError" THEN outer.under.next ELSE outer.under
        d1    == outer.d
        d2    == under.d
    IN pc = "nested" =>
          /\ d1 # d2
          /\ matched # "not called" => matched = (IF Matches(d1, t) THEN "true" ELSE "false")
          /\ (matched # "not called" /\ ~Matches(d1, t) /\ Matches(d2, t)) => matched = "false"
          /\ recovered # NoPanic =>
                /\ served = <<d1>>
                /\ served[1] # d2
                /\ outcome = "returned"
                /\ w.code = d1.Status

C28_Witness ==
    /\ pc = "nested"
    /\ isErr = DetailsOver(OutOfCreditDetails, DetailsError(TeapotDetails))
    /\ t = Type("", "", I(418), NilMap)
    /\ matched = "false"
    /\ served = <<OutOfCreditDetails>>
    /\ w.code = I(403)

=============================================================================
